---- MODULE Spec2Model ----
(***************************************************************************)
(* Model of the visitor counter service of src/app.py: a single SQLite     *)
(* row (visitors.id = 1) that GET /api/visitors increments and reads back  *)
(* and POST /api/reset sets to 0.                                          *)
(*                                                                         *)
(* The store is the database file at DATABASE_PATH.  Every operation opens *)
(* its own connection (get_db_connection).  Python's sqlite3 module opens  *)
(* a transaction implicitly before INSERT/UPDATE, which takes SQLite's     *)
(* single write lock; conn.commit() publishes the change and releases the  *)
(* lock; statements that only read, and CREATE TABLE, run in autocommit    *)
(* mode and see the last committed contents.  Leaving a `with conn:` block *)
(* by an exception rolls the open transaction back.                        *)
(***************************************************************************)
EXTENDS Integers, Sequences, FiniteSets, TLC

\* ---------------------------------------------------------------- bounds
NumProcs == 2
NumReqs == 2
MaxCount == 3
MaxV == 1

Procs == 1..NumProcs
Reqs == 1..NumReqs

VARIABLES
    tableExists,    \* the visitors table has been created in the file
    rows,           \* committed contents of the visitors table
    writer,         \* connection holding SQLite's write lock
    pending,        \* per connection: table contents of its open transaction
    ppc,            \* per process: position in startup (initialize_database)
    pc,             \* per request handler: position in the store operation
    kind,           \* per request handler: "get" or "reset"
    resp,           \* per request handler: the HTTP response produced
    wrote,          \* history: the request's transaction has committed
    commitsBefore,  \* history: requests whose commit preceded this one's
    everInit,       \* history: some initialize_database has completed
    v0,             \* history: stored count when the batch of GETs was issued
    hist,           \* history: the last three completed operations
    ref,            \* history: reference counter of the sequential runs
    increments,     \* history: increments committed since the last reset
    own,            \* history: the count the request's own increment wrote
    held            \* history: counts the store held since that commit

storeVars == <<tableExists, rows, writer, pending>>
procVars == <<ppc>>
reqVars == <<pc, kind, resp, wrote>>
trackVars == <<increments, own, held>>
hvars == <<commitsBefore, hist, ref, increments, own, held>>
vars == <<tableExists, rows, writer, pending, ppc, pc, kind, resp,
          wrote, commitsBefore, everInit, v0, hist, ref, increments, own, held>>

\* ------------------------------------------------------------ the store
\* a response body without a "count" key
NoCount == -1

Row(i, c) == [id |-> i, count |-> c]

\* INSERT INTO visitors (id, count) VALUES (1, 0)
SeedRow == Row(1, 0)

\* SELECT count FROM visitors WHERE id = 1
SelectRow(rs) == {x \in rs : x.id = 1}

\* the value fetchone() yields for a non-empty match
CountOfPlusOne(m) == (CHOOSE x \in m : TRUE).count + 1

CountOf(m) == (CHOOSE x \in m : TRUE).count

StoredCount == IF SelectRow(rows) = {} THEN NoCount ELSE CountOf(SelectRow(rows))

InitConn(p) == <<"init", p>>
ReqConn(r) == <<"req", r>>
NoConn == <<"none", 0>>
Conns == {InitConn(p) : p \in Procs} \cup {ReqConn(r) : r \in Reqs}

\* the handler threads of a process
Owner(r) == ((r - 1) % NumProcs) + 1

\* SQLite admits one write transaction at a time (conn.execute of an
\* INSERT/UPDATE begins it): connection c may write when no other holds the lock
CanWriteNoLock(c) == TRUE

CanWrite(c) == writer = NoConn \/ writer = c

\* INSERT under the schema's PRIMARY KEY CHECK(id = 1): a second row with
\* the same id is refused with IntegrityError
InsertOrReplace(rs, row) ==
    [ok |-> TRUE, rows |-> {x \in rs : x.id # row.id} \cup {row}]

InsertNoConstraint(rs, row) == [ok |-> TRUE, rows |-> rs \cup {row}]

Insert(rs, row) ==
    IF row.id # 1 \/ \E x \in rs : x.id = row.id
    THEN [ok |-> FALSE, rows |-> rs]
    ELSE [ok |-> TRUE, rows |-> rs \cup {row}]

\* UPDATE visitors SET count = count + 1 WHERE id = 1   (k = "get")
\* UPDATE visitors SET count = 0 WHERE id = 1           (k = "reset")
ApplyUpdateKeep(rs, k) ==
    {IF x.id = 1 /\ k = "get" THEN Row(x.id, x.count + 1) ELSE x : x \in rs}

ApplyUpdateResetOne(rs, k) ==
    {IF x.id = 1
     THEN Row(x.id, IF k = "get" THEN x.count + 1 ELSE 1)
     ELSE x : x \in rs}

ApplyUpdate(rs, k) ==
    {IF x.id = 1
     THEN Row(x.id, IF k = "get" THEN x.count + 1 ELSE 0)
     ELSE x : x \in rs}

\* what a process restart leaves of the committed table: the database is a
\* file on disk (DATABASE_PATH), so all of it
PersistedInMemory(rs) == {}

Persisted(rs) == rs

\* rollback on leaving `with conn:` by an exception, or on losing the process
Release(cs) == IF writer \in cs THEN NoConn ELSE writer
Discard(cs) == [c \in Conns |-> IF c \in cs THEN {} ELSE pending[c]]

\* ------------------------------------------------------- HTTP responses
NoResp == [status |-> 0, count |-> NoCount, error |-> ""]
OkResponse(n) == [status |-> 200, count |-> n, error |-> ""]

ErrorTextSwapped(k) ==
    IF k = "get" THEN "Unable to reset visitor count"
    ELSE "Unable to read visitor count"

ErrorText(k) ==
    IF k = "get" THEN "Unable to read visitor count"
    ELSE "Unable to reset visitor count"

\* `except Exception` of get_visitors / reset_visitors
HandlerCatches(e) == e \in {"OperationalError", "IntegrityError", "TypeError"}

\* the response Flask produces for an exception the view did not catch
Uncontrolled == [status |-> 500, count |-> NoCount, error |-> "Internal Server Error"]

ErrorResponse(k, e) ==
    IF HandlerCatches(e)
    THEN [status |-> 500, count |-> NoCount, error |-> ErrorText(k)]
    ELSE Uncontrolled

\* ------------------------------------------------------- initial states
InitReqs ==
    /\ pc = [r \in Reqs |-> "idle"]
    /\ kind = [r \in Reqs |-> "none"]
    /\ resp = [r \in Reqs |-> NoResp]
    /\ wrote = [r \in Reqs |-> FALSE]

\* no database file yet, no process started
Init ==
    /\ tableExists = FALSE
    /\ rows = {}
    /\ writer = NoConn
    /\ pending = [c \in Conns |-> {}]
    /\ ppc = [p \in Procs |-> "down"]
    /\ InitReqs
    /\ everInit = FALSE
    /\ v0 = 0
    /\ commitsBefore = [r \in Reqs |-> {}]
    /\ hist = <<>>
    /\ ref = 0
    /\ increments = 0
    /\ own = [r \in Reqs |-> NoCount]
    /\ held = [r \in Reqs |-> {}]

\* ------------------------------------------- startup: create_app / init
InFlight(r) == pc[r] \in {"update", "commit", "select"}
ConnsOf(p) == {InitConn(p)} \cup {ReqConn(r) : r \in {q \in Reqs : Owner(q) = p}}

\* The process is (re)started: its handlers and their open transactions are
\* lost, the module is imported again and create_app() enters
\* initialize_database (mkdir, get_db_connection).  The table and its
\* committed rows are what the database file keeps.
Start(p) ==
    /\ tableExists' = (tableExists /\ Persisted({SeedRow}) # {})
    /\ rows' = Persisted(rows)
    /\ writer' = Release(ConnsOf(p))
    /\ pending' = Discard(ConnsOf(p))
    /\ ppc' = [ppc EXCEPT ![p] = "create"]
    /\ pc' = [r \in Reqs |-> IF Owner(r) = p THEN "idle" ELSE pc[r]]
    /\ kind' = [r \in Reqs |-> IF Owner(r) = p THEN "none" ELSE kind[r]]
    /\ resp' = [r \in Reqs |-> IF Owner(r) = p THEN NoResp ELSE resp[r]]
    /\ wrote' = [r \in Reqs |-> IF Owner(r) = p THEN FALSE ELSE wrote[r]]
    /\ UNCHANGED <<everInit, v0>>

\* CREATE TABLE IF NOT EXISTS visitors (autocommit; a no-op on an existing
\* table, otherwise a write of the schema)
InitCreate(p) ==
    /\ ppc[p] = "create"
    /\ tableExists \/ CanWrite(InitConn(p))
    /\ tableExists' = TRUE
    /\ ppc' = [ppc EXCEPT ![p] = "select"]
    /\ UNCHANGED <<rows, writer, pending, reqVars, everInit, v0>>

\* row = SELECT count FROM visitors WHERE id = 1; a row that is there ends
\* initialize_database (the `with` block commits nothing)
InitSelect(p) ==
    /\ ppc[p] = "select"
    /\ tableExists
    /\ ppc' = [ppc EXCEPT ![p] = IF SelectRow(rows) = {} THEN "insert" ELSE "up"]
    /\ everInit' = (everInit \/ SelectRow(rows) # {})
    /\ UNCHANGED <<storeVars, reqVars, v0>>

\* if row is None: INSERT INTO visitors (id, count) VALUES (1, 0); a refused
\* INSERT raises out of create_app() and the startup is aborted
InitInsert(p) ==
    /\ ppc[p] = "insert"
    /\ CanWrite(InitConn(p))
    /\ LET res == Insert(rows, SeedRow) IN
        IF res.ok
        THEN /\ pending' = [pending EXCEPT ![InitConn(p)] = res.rows]
             /\ writer' = InitConn(p)
             /\ ppc' = [ppc EXCEPT ![p] = "commit"]
        ELSE /\ ppc' = [ppc EXCEPT ![p] = "failed"]
             /\ UNCHANGED <<pending, writer>>
    /\ UNCHANGED <<tableExists, rows, reqVars, everInit, v0>>

\* conn.commit() of the seeding INSERT
InitCommit(p) ==
    /\ ppc[p] = "commit"
    /\ rows' = pending[InitConn(p)]
    /\ writer' = Release({InitConn(p)})
    /\ pending' = Discard({InitConn(p)})
    /\ ppc' = [ppc EXCEPT ![p] = "up"]
    /\ everInit' = TRUE
    /\ UNCHANGED <<tableExists, reqVars, v0>>

\* any statement of initialize_database raises (I/O error, lock timeout):
\* the `with` block rolls back and the exception leaves create_app()
InitFail(p) ==
    /\ ppc[p] \in {"create", "select", "insert", "commit"}
    /\ writer' = Release({InitConn(p)})
    /\ pending' = Discard({InitConn(p)})
    /\ ppc' = [ppc EXCEPT ![p] = "failed"]
    /\ UNCHANGED <<tableExists, rows, reqVars, everInit, v0>>

\* ---------------------------------------------------- request handlers
\* increments that are in flight and not yet committed
Uncommitted == {r \in Reqs : kind[r] = "get" /\ pc[r] \in {"update", "commit"}}

\* create_app() runs at import, before app.run() or the WSGI server gets
\* the app: a process serves requests only once initialize_database returned
ServingDespiteFailure(p) == ppc[p] \in {"up", "failed"}

Serving(p) == ppc[p] = "up"

\* A request of kind k arrives at a handler thread of a process that is
\* serving: get_visitors / reset_visitors enters the store operation.
Request(r, k) ==
    /\ pc[r] = "idle"
    /\ Serving(Owner(r))
    /\ k = "get" => StoredCount + Cardinality(Uncommitted) < MaxCount
    /\ pc' = [pc EXCEPT ![r] = "update"]
    /\ kind' = [kind EXCEPT ![r] = k]
    /\ UNCHANGED <<storeVars, procVars, resp, wrote, everInit, v0>>

\* get_db_connection(); conn.execute("UPDATE visitors SET count = ...")
\* begins the transaction, takes the write lock and changes the row in it
Update(r) ==
    /\ pc[r] = "update"
    /\ tableExists
    /\ CanWrite(ReqConn(r))
    /\ pending' = [pending EXCEPT ![ReqConn(r)] = ApplyUpdate(rows, kind[r])]
    /\ writer' = ReqConn(r)
    /\ pc' = [pc EXCEPT ![r] = "commit"]
    /\ UNCHANGED <<tableExists, rows, procVars, kind, resp, wrote,
                   everInit, v0>>

\* conn.commit(); reset_count then returns 0 and reset_visitors answers
\* 200, increment_and_get_count goes on to read the row back
Commit(r) ==
    /\ pc[r] = "commit"
    /\ rows' = pending[ReqConn(r)]
    /\ writer' = Release({ReqConn(r)})
    /\ pending' = Discard({ReqConn(r)})
    /\ wrote' = [wrote EXCEPT ![r] = TRUE]
    /\ IF kind[r] = "get"
       THEN /\ pc' = [pc EXCEPT ![r] = "select"]
            /\ UNCHANGED resp
       ELSE /\ pc' = [pc EXCEPT ![r] = "done"]
            /\ resp' = [resp EXCEPT ![r] = OkResponse(0)]
    /\ UNCHANGED <<tableExists, procVars, kind, everInit, v0>>

\* row = SELECT count FROM visitors WHERE id = 1 (autocommit: the last
\* committed value); return int(row["count"]); get_visitors answers 200.
\* A missing row makes row["count"] raise TypeError.
Select(r) ==
    /\ pc[r] = "select"
    /\ tableExists
    /\ resp' = [resp EXCEPT ![r] =
                    IF SelectRow(rows) = {}
                    THEN ErrorResponse(kind[r], "TypeError")
                    ELSE OkResponse(CountOf(SelectRow(rows)))]
    /\ pc' = [pc EXCEPT ![r] = "done"]
    /\ UNCHANGED <<storeVars, procVars, kind, wrote,
                   everInit, v0>>

\* The statement the handler is at raises (cannot connect, database is
\* locked, disk full, I/O error): `with conn:` rolls the open transaction
\* back and the `except Exception` of the view answers 500.
Fail(r) ==
    /\ InFlight(r)
    /\ writer' = Release({ReqConn(r)})
    /\ pending' = Discard({ReqConn(r)})
    /\ resp' = [resp EXCEPT ![r] = ErrorResponse(kind[r], "OperationalError")]
    /\ pc' = [pc EXCEPT ![r] = "done"]
    /\ UNCHANGED <<tableExists, rows, procVars, kind, wrote,
                   everInit, v0>>

\* GET /: home() answers the static dashboard page; it opens no connection
HomeResponse == [status |-> 200, count |-> NoCount, error |-> ""]

Home(r) ==
    /\ pc[r] = "idle"
    /\ Serving(Owner(r))
    /\ pc' = [pc EXCEPT ![r] = "done"]
    /\ kind' = [kind EXCEPT ![r] = "home"]
    /\ resp' = [resp EXCEPT ![r] = HomeResponse]
    /\ UNCHANGED <<storeVars, procVars, wrote, everInit, v0>>

\* The response has been sent; the handler thread is free for the next
\* request.
Finish(r) ==
    /\ pc[r] = "done"
    /\ pc' = [pc EXCEPT ![r] = "idle"]
    /\ kind' = [kind EXCEPT ![r] = "none"]
    /\ resp' = [resp EXCEPT ![r] = NoResp]
    /\ wrote' = [wrote EXCEPT ![r] = FALSE]
    /\ UNCHANGED <<storeVars, procVars, everInit, v0>>

\* ------------------------------------------------- the whole service
\* History of the commits: increments counts the committed increments since
\* the last committed reset (or the seeding); from the commit of its own
\* increment until its SELECT a request records the counts the store holds.
Forget(rs) ==
    /\ own' = [r \in Reqs |-> IF r \in rs THEN NoCount ELSE own[r]]
    /\ held' = [r \in Reqs |-> IF r \in rs THEN {} ELSE held[r]]

TrackedStart(p) ==
    /\ Start(p)
    /\ Forget({r \in Reqs : Owner(r) = p})
    /\ UNCHANGED <<commitsBefore, hist, ref, increments>>

TrackedInitCommit(p) ==
    /\ InitCommit(p)
    /\ increments' = 0
    /\ UNCHANGED <<commitsBefore, hist, ref, own, held>>

TrackedCommit(r) ==
    /\ Commit(r)
    /\ increments' = IF SelectRow(rows') = {} THEN increments
                     ELSE IF kind[r] = "get" THEN increments + 1 ELSE 0
    /\ own' = [own EXCEPT ![r] = IF kind[r] = "get" THEN StoredCount' ELSE NoCount]
    /\ held' = [q \in Reqs |->
                    IF (q = r /\ kind[r] = "get") \/ (q # r /\ pc[q] = "select")
                    THEN held[q] \cup {StoredCount'}
                    ELSE held[q]]
    /\ UNCHANGED <<commitsBefore, hist, ref>>

TrackedSelect(r) ==
    /\ Select(r)
    /\ Forget({r})
    /\ UNCHANGED <<commitsBefore, hist, ref, increments>>

TrackedFail(r) ==
    /\ Fail(r)
    /\ Forget({r})
    /\ UNCHANGED <<commitsBefore, hist, ref, increments>>

Next ==
    \/ \E p \in Procs : TrackedStart(p)
    \/ \E p \in Procs : InitCreate(p) /\ UNCHANGED hvars
    \/ \E p \in Procs : InitSelect(p) /\ UNCHANGED hvars
    \/ \E p \in Procs : InitInsert(p) /\ UNCHANGED hvars
    \/ \E p \in Procs : TrackedInitCommit(p)
    \/ \E p \in Procs : InitFail(p) /\ UNCHANGED hvars
    \/ \E r \in Reqs, k \in {"get", "reset"} : Request(r, k) /\ UNCHANGED hvars
    \/ \E r \in Reqs : Update(r) /\ UNCHANGED hvars
    \/ \E r \in Reqs : TrackedCommit(r)
    \/ \E r \in Reqs : TrackedSelect(r)
    \/ \E r \in Reqs : TrackedFail(r)
    \/ \E r \in Reqs : Home(r) /\ UNCHANGED hvars
    \/ \E r \in Reqs : Finish(r) /\ UNCHANGED hvars

Spec == Init /\ [][Next]_vars

TypeOK ==
    /\ tableExists \in BOOLEAN
    /\ \A x \in rows : x.id = 1 /\ x.count \in 0..MaxCount
    /\ writer \in Conns \cup {NoConn}
    /\ \A r \in Reqs : pc[r] \in {"idle", "update", "commit", "select", "done"}

\* ------------------------------------- a batch of concurrent GET requests
\* The service is up on a store holding count V; every handler thread takes
\* one GET /api/visitors, no reset and no restart happens.
InitGet ==
    /\ tableExists = TRUE
    /\ \E V \in 0..MaxV : rows = {Row(1, V)} /\ v0 = V
    /\ writer = NoConn
    /\ pending = [c \in Conns |-> {}]
    /\ ppc = [p \in Procs |-> "up"]
    /\ InitReqs
    /\ everInit = TRUE
    /\ commitsBefore = [r \in Reqs |-> {}]
    /\ hist = <<>>
    /\ ref = 0
    /\ increments = 0
    /\ own = [r \in Reqs |-> NoCount]
    /\ held = [r \in Reqs |-> {}]

GetOnce(r) == Request(r, "get")

\* the commit of r comes after the commits of the requests that have committed
GetCommit(r) ==
    /\ Commit(r)
    /\ commitsBefore' = [commitsBefore EXCEPT
                            ![r] = {q \in Reqs \ {r} : wrote[q]}]
    /\ UNCHANGED <<hist, ref, trackVars>>

NextGet ==
    \/ \E r \in Reqs : GetOnce(r) /\ UNCHANGED hvars
    \/ \E r \in Reqs : Update(r) /\ UNCHANGED hvars
    \/ \E r \in Reqs : GetCommit(r)
    \/ \E r \in Reqs : Select(r) /\ UNCHANGED hvars
    \/ \E r \in Reqs : Fail(r) /\ UNCHANGED hvars

SpecGet == InitGet /\ [][NextGet]_vars

\* --------------------------------------- requests that do not overlap
\* hist records the operations in the order they completed; ref is the
\* reference counter (GETs since the most recent reset), NoCount once a
\* request failed or was lost with its process.
Event(k, st, c) == [kind |-> k, status |-> st, count |-> c]
RestartEvent == Event("restart", 0, NoCount)
KilledEvent == Event("killed", 0, NoCount)

Push(h, e) == IF Len(h) < 3 THEN Append(h, e) ELSE Append(Tail(h), e)

Last(h) == h[Len(h)]

\* the step completed request r: record its response
Completed(r) ==
    /\ hist' = Push(hist, Event(kind[r], resp'[r].status, resp'[r].count))
    /\ ref' = IF ref = NoCount \/ resp'[r].status # 200 THEN NoCount
              ELSE IF kind[r] = "get" THEN ref + 1 ELSE 0
    /\ UNCHANGED <<commitsBefore, trackVars>>

Kills(p) == \E r \in Reqs : Owner(r) = p /\ InFlight(r)

SeqStart(p) ==
    /\ Start(p)
    /\ hist' = IF Kills(p) THEN Push(hist, KilledEvent)
               ELSE IF hist # <<>> /\ Last(hist) = RestartEvent THEN hist
               ELSE Push(hist, RestartEvent)
    /\ ref' = IF Kills(p) THEN NoCount ELSE ref
    /\ UNCHANGED <<commitsBefore, trackVars>>

SeqRequest(r, k) ==
    /\ \A q \in Reqs : pc[q] = "idle"
    /\ Request(r, k)
    /\ UNCHANGED hvars

SeqCommit(r) ==
    /\ Commit(r)
    /\ IF kind[r] = "reset" THEN Completed(r) ELSE UNCHANGED hvars

SeqSelect(r) == Select(r) /\ Completed(r)

SeqFail(r) == Fail(r) /\ Completed(r)

NextSeq ==
    \/ \E p \in Procs : SeqStart(p)
    \/ \E p \in Procs : InitCreate(p) /\ UNCHANGED hvars
    \/ \E p \in Procs : InitSelect(p) /\ UNCHANGED hvars
    \/ \E p \in Procs : InitInsert(p) /\ UNCHANGED hvars
    \/ \E p \in Procs : InitCommit(p) /\ UNCHANGED hvars
    \/ \E p \in Procs : InitFail(p) /\ UNCHANGED hvars
    \/ \E r \in Reqs, k \in {"get", "reset"} : SeqRequest(r, k)
    \/ \E r \in Reqs : Update(r) /\ UNCHANGED hvars
    \/ \E r \in Reqs : SeqCommit(r)
    \/ \E r \in Reqs : SeqSelect(r)
    \/ \E r \in Reqs : SeqFail(r)
    \/ \E r \in Reqs : Finish(r) /\ UNCHANGED hvars

SpecSeq == Init /\ [][NextSeq]_vars

\* ================================================================ claims
Issued == {r \in Reqs : pc[r] # "idle"}
Succeeded(r) == pc[r] = "done" /\ resp[r].status = 200
AllSucceeded == Issued # {} /\ \A r \in Issued : Succeeded(r)

\* C1 (SpecGet): once all N concurrent GET /api/visitors requests issued
\* against a stored count V have completed with 200, the stored count is
\* exactly V + N, under every interleaving of UPDATE, commit and SELECT.
C1_LostUpdateFreedom ==
    AllSucceeded => StoredCount = v0 + Cardinality(Issued)

\* every handler answered 200 and two of them overlapped (the second
\* committed before the first read the row back, so both read one value)
C1_Witness ==
    /\ AllSucceeded
    /\ Issued = Reqs
    /\ \E q, r \in Reqs : q # r /\ resp[q].count = resp[r].count

\* C2 (SpecGet): the counts returned by N concurrent successful GET
\* requests on a stored count V are exactly V+1, ..., V+N, each once.
C2_DistinctReturnedValues ==
    AllSucceeded =>
        {resp[r].count : r \in Issued} = (v0 + 1)..(v0 + Cardinality(Issued))

\* C3 (SpecGet): if the increment of request q commits before the increment
\* of request r, the count returned to q is strictly smaller than the count
\* returned to r.
C3_ReturnsFollowCommitOrder ==
    \A q, r \in Reqs :
        (Succeeded(q) /\ Succeeded(r) /\ q \in commitsBefore[r])
            => resp[q].count < resp[r].count

Get200(e) == e.kind = "get" /\ e.status = 200
Reset200(e) == e.kind = "reset" /\ e.status = 200

\* C4 (SpecSeq): in a run of non-overlapping successful requests on a fresh
\* store every GET answers 200 with 1 + the number of GETs since the most
\* recent reset, and every reset answers 200 with 0 (the reference counter).
C4_SequentialReference ==
    (hist # <<>> /\ ref # NoCount /\ Last(hist).kind \in {"get", "reset"})
        => Last(hist).status = 200 /\ Last(hist).count = ref

\* ... GET -> 2, reset -> 0, GET -> 1
C4_Witness ==
    /\ ref = 1
    /\ hist = <<Event("get", 200, 2), Event("reset", 200, 0), Event("get", 200, 1)>>

\* C5 (Spec): a store operation that fails at any step ends the request
\* with 500 and the route's own error body; the failure leaves the process
\* serving and the write lock free; every response is one of 200 / 500.
C5_FailuresAnswered500 ==
    [][\A r \in Reqs :
        /\ Fail(r) =>
            /\ pc'[r] = "done"
            /\ resp'[r] = [status |-> 500, count |-> NoCount,
                           error |-> IF kind[r] = "get"
                                     THEN "Unable to read visitor count"
                                     ELSE "Unable to reset visitor count"]
            /\ writer' # ReqConn(r)
            /\ ppc'[Owner(r)] = "up"
        /\ (pc'[r] = "done" /\ kind'[r] \in {"get", "reset"}) =>
            \/ resp'[r].status = 200 /\ resp'[r].count >= 0 /\ resp'[r].error = ""
            \/ resp'[r].status = 500 /\ resp'[r].count = NoCount
                 /\ resp'[r].error \in {"Unable to read visitor count",
                                        "Unable to reset visitor count"}
      ]_vars

\* a failed GET and a failed reset have both been answered
C5_Witness ==
    \E q, r \in Reqs :
        /\ pc[q] = "done" /\ kind[q] = "get" /\ resp[q].status = 500
        /\ pc[r] = "done" /\ kind[r] = "reset" /\ resp[r].status = 500

\* C6 (Spec): a request answered 500 has not modified the stored count,
\* whichever step of the store operation failed.
C6_FailureChangesNothing ==
    \A r \in Reqs : (pc[r] = "done" /\ resp[r].status = 500) => ~wrote[r]

\* C7 (SpecSeq): a successful operation leaves the stored count K (the
\* count an increment returned, 0 for a reset), a process restarts and
\* runs initialize_database again, and the next successful increment
\* returns K + 1.
C7_DurableAcrossRestart ==
    (/\ Len(hist) = 3
     /\ hist[1].status = 200
     /\ hist[2] = RestartEvent
     /\ Get200(hist[3]))
        => hist[3].count = hist[1].count + 1

\* GET -> 2, restart, GET -> 3
C7_Witness ==
    hist = <<Event("get", 200, 2), RestartEvent, Event("get", 200, 3)>>

\* C8 (SpecSeq): two consecutive successful resets both return 0 and leave
\* the stored count at 0; the first successful increment after a reset
\* returns 1.
C8_ResetIdempotent ==
    /\ (Len(hist) >= 2 /\ Reset200(hist[Len(hist) - 1]) /\ Reset200(Last(hist)))
        => /\ hist[Len(hist) - 1].count = 0
           /\ Last(hist).count = 0
           /\ (\A r \in Reqs : ~InFlight(r)) => StoredCount = 0
    /\ (Len(hist) >= 2 /\ Reset200(hist[Len(hist) - 1]) /\ Get200(Last(hist)))
        => Last(hist).count = 1

\* GET -> 2, then reset, reset
C8_Witness ==
    /\ hist = <<Event("get", 200, 2), Event("reset", 200, 0), Event("reset", 200, 0)>>
    /\ StoredCount = 0

InitStep(p) ==
    \/ Start(p)
    \/ InitCreate(p)
    \/ InitSelect(p)
    \/ InitInsert(p)
    \/ InitCommit(p)
    \/ InitFail(p)

\* C9 (Spec): no step of initialize_database, whenever it runs, changes an
\* existing row or leaves more than one row; completing on a store that has
\* no row leaves the single row with count 0.
C9_InitIdempotent ==
    [][\A p \in Procs :
        InitStep(p) =>
            /\ rows # {} => rows' = rows
            /\ Cardinality(rows') <= 1
            /\ (rows = {} /\ ppc[p] # "up" /\ ppc'[p] = "up") => rows' = {Row(1, 0)}
      ]_vars

\* a process that read the row as absent is about to INSERT while the
\* store, seeded by another process meanwhile, already counts visits
C9_Witness ==
    \E p, q \in Procs : ppc[p] = "insert" /\ ppc[q] = "up" /\ StoredCount > 0

\* C10 (Spec): once an initialization has completed the table holds exactly
\* one row, with id = 1 and count >= 0.
C10_SingleRow ==
    everInit =>
        /\ tableExists
        /\ Cardinality(rows) = 1
        /\ \A x \in rows : x.id = 1 /\ x.count >= 0

\* after increments up to MaxCount, the last of them answered 500 although
\* it committed, and a startup of another process that failed
C10_Witness ==
    /\ everInit
    /\ StoredCount = MaxCount
    /\ \E p \in Procs : ppc[p] = "failed"
    /\ \E r \in Reqs : pc[r] = "done" /\ resp[r].status = 500 /\ wrote[r]

\* C11 (Spec): a failed initialize_database aborts the startup: every
\* request being handled, or answered, belongs to a process whose
\* initialization completed successfully.
C11_InitFailureFatal ==
    \A r \in Reqs : pc[r] # "idle" => ppc[Owner(r)] = "up"

\* one startup failed while another process is handling a request
C11_Witness ==
    \E p \in Procs, r \in Reqs :
        ppc[p] = "failed" /\ Owner(r) # p /\ InFlight(r)

IncrementCommit(r) == Commit(r) /\ kind[r] = "get"
ResetCommit(r) == Commit(r) /\ kind[r] = "reset"

\* C12 (Spec): a step that changes the existing stored count is the commit
\* of an increment, adding exactly 1, or the commit of a reset, setting 0;
\* GET /, re-initialization, failed requests and restarts leave it alone,
\* so the count decreases only by a reset.
C12_MonotonicUntilReset ==
    [][(rows # {} /\ rows' # rows) =>
        /\ \E r \in Reqs :
            \/ IncrementCommit(r) /\ rows' = {Row(1, StoredCount + 1)}
            \/ ResetCommit(r) /\ rows' = {Row(1, 0)}
        /\ \A x \in rows' : x.count < StoredCount => x.count = 0
      ]_vars

\* the count stands at MaxCount after a failed request, while GET / has
\* been answered and another process failed to start
C12_Witness ==
    /\ StoredCount = MaxCount
    /\ \E p \in Procs : ppc[p] = "failed"
    /\ \E r \in Reqs : pc[r] = "done" /\ kind[r] = "home"

\* C13 (Spec): a successful GET /api/visitors returns the value of its own
\* increment, hence never 0, also when a reset runs concurrently.
C13_GetNeverReturnsZero ==
    \A r \in Reqs :
        (pc[r] = "done" /\ kind[r] = "get" /\ resp[r].status = 200)
            => resp[r].count >= 1

\* C14 (Spec): in every state the stored count is the number of increment
\* transactions committed since the most recently committed reset, or since
\* the seeding when no reset has committed.
C14_CountIsIncrementsSinceReset ==
    rows # {} => StoredCount = increments

\* two increments have committed after a reset, a third is in its transaction
C14_Witness ==
    /\ increments = 2
    /\ \E q, r \in Reqs :
        /\ pc[q] = "done" /\ kind[q] = "reset" /\ resp[q].status = 200
        /\ pc[r] = "commit" /\ kind[r] = "get"

\* C15 (Spec): the count a successful GET /api/visitors returns is a value
\* the store held at some instant from the commit of the request's own
\* increment on; when no reset committed in that interval it is at least
\* the value its own increment wrote and at most the number of increments
\* committed (since the count was last 0) when the response is produced.
C15_ReturnsAHeldValue ==
    [][\A r \in Reqs :
        (Select(r) /\ resp'[r].status = 200) =>
            /\ resp'[r].count \in held[r]
            /\ \E x \in rows : x.count = resp'[r].count
            /\ 0 \notin held[r] =>
                /\ own[r] <= resp'[r].count
                /\ resp'[r].count <= increments
      ]_vars

\* a request about to read back after another increment committed on top
\* of its own: the store has held two values since its commit
C15_Witness ==
    \E r \in Reqs :
        /\ pc[r] = "select"
        /\ held[r] = {own[r], own[r] + 1}
        /\ StoredCount = own[r] + 1

\* C16 (Spec): when two processes initialize at once, possibly while the
\* first to finish already serves increments, the table never holds more
\* than one row, the seeding INSERT never commits over an existing row, and
\* the initializer that finds the row taken fails without changing the store.
C16_ConcurrentInitSafe ==
    [][\A p \in Procs :
        /\ Cardinality(rows') <= 1
        /\ InitCommit(p) => rows = {} /\ rows' = {Row(1, 0)}
        /\ (InitInsert(p) /\ rows # {}) =>
            /\ ppc'[p] = "failed"
            /\ rows' = rows
            /\ pending' = pending
            /\ writer' = writer
      ]_vars

\* both processes read the row as absent; one holds the seeding INSERT in
\* its open transaction, the other is about to INSERT
C16_Witness ==
    \E p, q \in Procs : p # q /\ ppc[p] = "insert" /\ ppc[q] = "commit"

====
